---- MODULE Spec2Model ----
(***************************************************************************)
(* Model of the validation and derivation helpers of a KEDA ScaledObject   *)
(* (apis/keda/v1alpha1/scaledobject_types.go): the replica-count defaults, *)
(* the replica-bounds check, the fallback check, the scaling-modifiers     *)
(* detector and the pause-annotation resolution.                           *)
(*                                                                         *)
(* The state is one ScaledObject snapshot `so` (spec, annotations, status) *)
(* and, per operation, the value its last call returned (`ret`); `calls`   *)
(* counts the calls made.  Every operation of the source is an operator    *)
(* computed the way the code computes it, and an action that calls it on   *)
(* the snapshot.                                                           *)
(***************************************************************************)
EXTENDS Integers, Sequences, FiniteSets, TLC

VARIABLES so, ret, calls

vars == <<so, ret, calls>>

(***************************************************************************)
(* Bounds of the model.                                                    *)
(***************************************************************************)
\* replica counts are drawn from -MaxReplica..MaxReplica and around the default max
MaxReplica == 2
\* longest trigger list
MaxTriggers == 3
\* number of calls made on one snapshot when all operations are mixed
MaxCalls == 3

(***************************************************************************)
(* Go values.  A pointer is Nil or Ptr(v); a Go error is nil (NoError) or  *)
(* the format string of fmt.Errorf followed by its arguments.              *)
(***************************************************************************)
Nil == <<>>

Ptr(v) == <<v>>

Deref(p) == p[1]

NilOr(S) == {Nil} \cup {Ptr(v) : v \in S}

NoError == <<>>

Errorf(format, args) == <<format>> \o args

(***************************************************************************)
(* Constants of the package.                                               *)
(***************************************************************************)
PausedReplicasAnnotation == "autoscaling.keda.sh/paused-replicas"

PausedAnnotation == "autoscaling.keda.sh/paused"

defaultHPAMinReplicas == 1

defaultHPAMaxReplicas == 100

cpuString == "cpu"

memoryString == "memory"

ValueMetricType == "Value"

AverageValueMetricType == "AverageValue"

\* the formats of the errors the two checks build
ErrMinAboveMax == "MinReplicaCount=%d must be less than MaxReplicaCount=%d"

ErrIdleAboveOrEqualMin == "IdleReplicaCount=%d must be less than MinReplicaCount=%d"

ErrNegativeFallbackField == "FailureThreshold=%d & Replicas=%d must both be greater than or equal to 0"

ErrUnsupportedFallbackMetricType == "when using ScalingModifiers, ScaledObject.Spec.Advanced.ScalingModifiers.MetricType must be AverageValue to have fallback enabled"

\* (the source quotes AverageValue in backquotes, which a TLA+ string cannot hold)
ErrNoEligibleFallbackTrigger == "at least one trigger (that is not cpu or memory) has to have the AverageValue type for the fallback to be enabled"

(***************************************************************************)
(* GetHPAMinReplicas / GetHPAMaxReplicas                                   *)
(***************************************************************************)
\* mutant: accepts a declared zero as the HPA minimum
GetHPAMinReplicas_AcceptsZero(s) ==
    IF s.Spec.MinReplicaCount # Nil /\ Deref(s.Spec.MinReplicaCount) >= 0
    THEN s.Spec.MinReplicaCount
    ELSE Ptr(defaultHPAMinReplicas)

\* returns a pointer: the MinReplicaCount of the spec itself, or a fresh default
GetHPAMinReplicas(s) ==
    IF s.Spec.MinReplicaCount # Nil /\ Deref(s.Spec.MinReplicaCount) > 0
    THEN s.Spec.MinReplicaCount
    ELSE LET tmp == defaultHPAMinReplicas IN Ptr(tmp)

GetHPAMaxReplicas(s) ==
    IF s.Spec.MaxReplicaCount # Nil
    THEN Deref(s.Spec.MaxReplicaCount)
    ELSE defaultHPAMaxReplicas

(***************************************************************************)
(* CheckReplicaCountBoundsAreValid                                         *)
(***************************************************************************)
\* mutant: the min/max comparison rejects min = max
CheckReplicaCountBoundsAreValid_MinEqMax(scaledObject) ==
    LET minReplicas == IF scaledObject.Spec.MinReplicaCount # Nil
                       THEN Deref(GetHPAMinReplicas(scaledObject))
                       ELSE 0
        maxReplicas == GetHPAMaxReplicas(scaledObject)
    IN  IF minReplicas >= maxReplicas
        THEN Errorf(ErrMinAboveMax, <<minReplicas, maxReplicas>>)
        ELSE IF /\ scaledObject.Spec.IdleReplicaCount # Nil
                /\ Deref(scaledObject.Spec.IdleReplicaCount) >= minReplicas
        THEN Errorf(ErrIdleAboveOrEqualMin,
                    <<Deref(scaledObject.Spec.IdleReplicaCount), minReplicas>>)
        ELSE NoError

\* mutant: the idle comparison accepts idle = min
CheckReplicaCountBoundsAreValid_IdleEqMin(scaledObject) ==
    LET minReplicas == IF scaledObject.Spec.MinReplicaCount # Nil
                       THEN Deref(GetHPAMinReplicas(scaledObject))
                       ELSE 0
        maxReplicas == GetHPAMaxReplicas(scaledObject)
    IN  IF minReplicas > maxReplicas
        THEN Errorf(ErrMinAboveMax, <<minReplicas, maxReplicas>>)
        ELSE IF /\ scaledObject.Spec.IdleReplicaCount # Nil
                /\ Deref(scaledObject.Spec.IdleReplicaCount) > minReplicas
        THEN Errorf(ErrIdleAboveOrEqualMin,
                    <<Deref(scaledObject.Spec.IdleReplicaCount), minReplicas>>)
        ELSE NoError

CheckReplicaCountBoundsAreValid(scaledObject) ==
    LET minReplicas == IF scaledObject.Spec.MinReplicaCount # Nil
                       THEN Deref(GetHPAMinReplicas(scaledObject))
                       ELSE 0
        maxReplicas == GetHPAMaxReplicas(scaledObject)
    IN  IF minReplicas > maxReplicas
        THEN Errorf(ErrMinAboveMax, <<minReplicas, maxReplicas>>)
        ELSE IF /\ scaledObject.Spec.IdleReplicaCount # Nil
                /\ Deref(scaledObject.Spec.IdleReplicaCount) >= minReplicas
        THEN Errorf(ErrIdleAboveOrEqualMin,
                    <<Deref(scaledObject.Spec.IdleReplicaCount), minReplicas>>)
        ELSE NoError

(***************************************************************************)
(* IsUsingModifiers                                                        *)
(***************************************************************************)
\* ScalingModifiers{}: the zero value of the struct
ZeroScalingModifiers ==
    [Formula |-> "", Target |-> "", ActivationTarget |-> "", MetricType |-> ""]

\* reflect.DeepEqual on two ScalingModifiers: field by field
DeepEqual(a, b) ==
    /\ a.Formula = b.Formula
    /\ a.Target = b.Target
    /\ a.ActivationTarget = b.ActivationTarget
    /\ a.MetricType = b.MetricType

\* mutant: only the formula decides whether modifiers are in use
IsUsingModifiers_FormulaOnly(s) ==
    /\ s.Spec.Advanced # Nil
    /\ Deref(s.Spec.Advanced).ScalingModifiers.Formula # ""

IsUsingModifiers(s) ==
    /\ s.Spec.Advanced # Nil
    /\ ~DeepEqual(Deref(s.Spec.Advanced).ScalingModifiers, ZeroScalingModifiers)

(***************************************************************************)
(* CheckFallbackValid                                                      *)
(***************************************************************************)
RECURSIVE fallbackValid_FirstOnly(_, _)
\* mutant: the scan stops at the first trigger that is not cpu or memory
fallbackValid_FirstOnly(triggers, i) ==
    IF i > Len(triggers)
    THEN FALSE
    ELSE LET trigger == triggers[i] IN
         IF trigger.Type = cpuString \/ trigger.Type = memoryString
         THEN fallbackValid_FirstOnly(triggers, i + 1)
         ELSE LET effectiveMetricType ==
                      IF trigger.MetricType = ""
                      THEN AverageValueMetricType
                      ELSE trigger.MetricType
              IN  effectiveMetricType = AverageValueMetricType

RECURSIVE fallbackValid(_, _)
\* the loop over Spec.Triggers from index i on: the final value of fallbackValid
fallbackValid(triggers, i) ==
    IF i > Len(triggers)
    THEN FALSE
    ELSE LET trigger == triggers[i] IN
         IF trigger.Type = cpuString \/ trigger.Type = memoryString
         THEN fallbackValid(triggers, i + 1)
         ELSE LET effectiveMetricType ==
                      IF trigger.MetricType = ""
                      THEN AverageValueMetricType
                      ELSE trigger.MetricType
              IN  IF effectiveMetricType = AverageValueMetricType
                  THEN TRUE
                  ELSE fallbackValid(triggers, i + 1)

\* mutant: the modifiers branch comes before the check of the numeric fields
CheckFallbackValid_ModifiersFirst(scaledObject) ==
    IF scaledObject.Spec.Fallback = Nil
    THEN NoError
    ELSE LET fallback == Deref(scaledObject.Spec.Fallback) IN
         IF /\ IsUsingModifiers(scaledObject)
            /\ Deref(scaledObject.Spec.Advanced).ScalingModifiers.MetricType
                   = ValueMetricType
         THEN Errorf(ErrUnsupportedFallbackMetricType, <<>>)
         ELSE IF fallback.FailureThreshold < 0 \/ fallback.Replicas < 0
         THEN Errorf(ErrNegativeFallbackField,
                     <<fallback.FailureThreshold, fallback.Replicas>>)
         ELSE IF IsUsingModifiers(scaledObject)
         THEN NoError
         ELSE IF ~fallbackValid(scaledObject.Spec.Triggers, 1)
         THEN Errorf(ErrNoEligibleFallbackTrigger, <<>>)
         ELSE NoError

\* mutant: with modifiers in use, anything but AverageValue is refused
CheckFallbackValid_NeedsAverageValue(scaledObject) ==
    IF scaledObject.Spec.Fallback = Nil
    THEN NoError
    ELSE LET fallback == Deref(scaledObject.Spec.Fallback) IN
         IF fallback.FailureThreshold < 0 \/ fallback.Replicas < 0
         THEN Errorf(ErrNegativeFallbackField,
                     <<fallback.FailureThreshold, fallback.Replicas>>)
         ELSE IF IsUsingModifiers(scaledObject)
         THEN IF Deref(scaledObject.Spec.Advanced).ScalingModifiers.MetricType
                     # AverageValueMetricType
              THEN Errorf(ErrUnsupportedFallbackMetricType, <<>>)
              ELSE NoError
         ELSE IF ~fallbackValid(scaledObject.Spec.Triggers, 1)
         THEN Errorf(ErrNoEligibleFallbackTrigger, <<>>)
         ELSE NoError

CheckFallbackValid(scaledObject) ==
    IF scaledObject.Spec.Fallback = Nil
    THEN NoError
    ELSE LET fallback == Deref(scaledObject.Spec.Fallback) IN
         IF fallback.FailureThreshold < 0 \/ fallback.Replicas < 0
         THEN Errorf(ErrNegativeFallbackField,
                     <<fallback.FailureThreshold, fallback.Replicas>>)
         ELSE IF IsUsingModifiers(scaledObject)
         THEN IF Deref(scaledObject.Spec.Advanced).ScalingModifiers.MetricType
                     = ValueMetricType
              THEN Errorf(ErrUnsupportedFallbackMetricType, <<>>)
              ELSE NoError
         ELSE IF ~fallbackValid(scaledObject.Spec.Triggers, 1)
         THEN Errorf(ErrNoEligibleFallbackTrigger, <<>>)
         ELSE NoError

(***************************************************************************)
(* Pause annotations                                                       *)
(***************************************************************************)
\* Go map lookup `v, found := m[key]` on the object's annotations
Found(annotations, key) == key \in DOMAIN annotations

\* strconv.ParseBool: <<value, err>>; exactly these twelve spellings parse
ParseBool(str) ==
    IF str \in {"1", "t", "T", "TRUE", "true", "True"}
    THEN <<TRUE, NoError>>
    ELSE IF str \in {"0", "f", "F", "FALSE", "false", "False"}
    THEN <<FALSE, NoError>>
    ELSE <<FALSE, Errorf("strconv.ParseBool: parsing %q: invalid syntax", <<str>>)>>

HasPausedReplicaAnnotation(s) ==
    LET pausedReplicasAnnotationFound == Found(s.Annotations, PausedReplicasAnnotation)
    IN  pausedReplicasAnnotationFound

HasPausedAnnotation(s) ==
    LET pausedAnnotationFound == Found(s.Annotations, PausedAnnotation)
        pausedReplicasAnnotationFound == Found(s.Annotations, PausedReplicasAnnotation)
    IN  pausedAnnotationFound \/ pausedReplicasAnnotationFound

\* mutant: the boolean annotation is looked at first
NeedToBePausedByAnnotation_PausedFirst(s) ==
    IF Found(s.Annotations, PausedAnnotation)
    THEN LET parsed == ParseBool(s.Annotations[PausedAnnotation])
         IN  IF parsed[2] # NoError THEN TRUE ELSE parsed[1]
    ELSE IF Found(s.Annotations, PausedReplicasAnnotation)
    THEN s.Status.PausedReplicaCount # Nil
    ELSE FALSE

NeedToBePausedByAnnotation(s) ==
    LET pausedReplicasAnnotationFound == Found(s.Annotations, PausedReplicasAnnotation)
        pausedAnnotationFound == Found(s.Annotations, PausedAnnotation)
    IN  IF pausedReplicasAnnotationFound
        THEN s.Status.PausedReplicaCount # Nil
        ELSE IF ~pausedAnnotationFound
        THEN FALSE
        ELSE LET parsed == ParseBool(s.Annotations[PausedAnnotation])
                 shouldPause == parsed[1]
                 err == parsed[2]
             IN  IF err # NoError THEN TRUE ELSE shouldPause

(***************************************************************************)
(* The snapshots the operations are called on.                             *)
(***************************************************************************)
ScaledObject(idle, min, max, advanced, triggers, fallback, annotations, paused) ==
    [Spec |-> [IdleReplicaCount |-> idle,
               MinReplicaCount  |-> min,
               MaxReplicaCount  |-> max,
               Advanced         |-> advanced,
               Triggers         |-> triggers,
               Fallback         |-> fallback],
     Annotations |-> annotations,
     Status |-> [PausedReplicaCount |-> paused]]

\* int32 replica counts: around zero and around the default maximum
ReplicaVals ==
    (-MaxReplica .. MaxReplica)
        \cup (defaultHPAMaxReplicas - 1 .. defaultHPAMaxReplicas + 1)

FallbackVals ==
    [FailureThreshold : -1 .. 1, Replicas : -1 .. 1, Behavior : {"static"}]

ScalingModifiersVals ==
    [Formula : {"", "x + y"}, Target : {"", "2"}, ActivationTarget : {"", "1"},
     MetricType : {"", AverageValueMetricType, ValueMetricType}]

AdvancedVals ==
    [HorizontalPodAutoscalerConfig : NilOr({[Name |-> "hpa"]}),
     RestoreToOriginalReplicaCount : BOOLEAN,
     ScalingModifiers : ScalingModifiersVals]

\* the advanced blocks with nothing set but a formula or a metric type
PlainAdvancedVals ==
    {a \in AdvancedVals :
        /\ a.HorizontalPodAutoscalerConfig = Nil
        /\ ~a.RestoreToOriginalReplicaCount
        /\ a.ScalingModifiers.Target = ""
        /\ a.ScalingModifiers.ActivationTarget = ""}

TriggerVals ==
    [Type : {cpuString, memoryString, "kafka"},
     MetricType : {"", AverageValueMetricType, ValueMetricType, "Utilization"}]

TriggerLists == UNION {[1 .. n -> TriggerVals] : n \in 0 .. MaxTriggers}

\* the annotations map with the given (Nil or Ptr) values of the two pause keys
Annotations(pausedReplicas, paused) ==
    [k \in (IF pausedReplicas # Nil THEN {PausedReplicasAnnotation} ELSE {})
              \cup (IF paused # Nil THEN {PausedAnnotation} ELSE {})
       |-> IF k = PausedReplicasAnnotation
           THEN Deref(pausedReplicas) ELSE Deref(paused)]

NoAnnotations == Annotations(Nil, Nil)

PausedReplicasVals == {"", "0", "5", "five"}

PausedVals ==
    {"1", "t", "T", "TRUE", "true", "True", "0", "f", "F", "FALSE", "false", "False",
     "", "not-a-bool", "yes", "no", "tRUE", "2"}

Operations ==
    {"HasPausedReplicaAnnotation", "HasPausedAnnotation", "NeedToBePausedByAnnotation",
     "IsUsingModifiers", "GetHPAMinReplicas", "GetHPAMaxReplicas",
     "CheckReplicaCountBoundsAreValid", "CheckFallbackValid"}

NotCalled == [op \in Operations |-> Nil]

Called(op) == ret[op] # Nil

Result(op) == Deref(ret[op])

(***************************************************************************)
(* Initial states: one snapshot, nothing called yet.                       *)
(***************************************************************************)
InitBounds ==
    /\ \E idle \in NilOr(ReplicaVals), min \in NilOr(ReplicaVals),
          max \in NilOr(ReplicaVals) :
          so = ScaledObject(idle, min, max, Nil, <<>>, Nil, NoAnnotations, Nil)
    /\ ret = NotCalled
    /\ calls = 0

InitFallback ==
    /\ \E advanced \in NilOr(PlainAdvancedVals), triggers \in TriggerLists,
          fallback \in NilOr(FallbackVals) :
          so = ScaledObject(Nil, Nil, Nil, advanced, triggers, fallback,
                            NoAnnotations, Nil)
    /\ ret = NotCalled
    /\ calls = 0

InitModifiers ==
    /\ \E advanced \in NilOr(AdvancedVals) :
          so = ScaledObject(Nil, Nil, Nil, advanced, <<>>, Nil, NoAnnotations, Nil)
    /\ ret = NotCalled
    /\ calls = 0

InitPause ==
    /\ \E pausedReplicas \in NilOr(PausedReplicasVals), paused \in NilOr(PausedVals),
          count \in NilOr(0 .. MaxReplica) :
          so = ScaledObject(Nil, Nil, Nil, Nil, <<>>, Nil,
                            Annotations(pausedReplicas, paused), count)
    /\ ret = NotCalled
    /\ calls = 0

Init ==
    /\ \E idle \in NilOr({0}), min \in NilOr({0, 2}), max \in NilOr({1}),
          advanced \in NilOr({[HorizontalPodAutoscalerConfig |-> Nil,
                               RestoreToOriginalReplicaCount |-> FALSE,
                               ScalingModifiers |->
                                   [ZeroScalingModifiers EXCEPT
                                        !.MetricType = ValueMetricType]]}),
          triggers \in {<<[Type |-> cpuString, MetricType |-> ""]>>,
                        <<[Type |-> "kafka", MetricType |-> ""]>>},
          fallback \in NilOr({[FailureThreshold |-> 0, Replicas |-> 0,
                               Behavior |-> "static"],
                              [FailureThreshold |-> -1, Replicas |-> 1,
                               Behavior |-> "static"]}),
          pausedReplicas \in NilOr({"5"}), paused \in NilOr({"true", "not-a-bool"}),
          count \in NilOr({MaxReplica}) :
          so = ScaledObject(idle, min, max, advanced, triggers, fallback,
                            Annotations(pausedReplicas, paused), count)
    /\ ret = NotCalled
    /\ calls = 0

(***************************************************************************)
(* One action per operation: the call on the snapshot.  No operation       *)
(* assigns to the object it is given.                                      *)
(***************************************************************************)
CallHasPausedReplicaAnnotation ==
    /\ ret' = [ret EXCEPT !["HasPausedReplicaAnnotation"] =
                              Ptr(HasPausedReplicaAnnotation(so))]
    /\ UNCHANGED so

CallHasPausedAnnotation ==
    /\ ret' = [ret EXCEPT !["HasPausedAnnotation"] = Ptr(HasPausedAnnotation(so))]
    /\ UNCHANGED so

CallNeedToBePausedByAnnotation ==
    /\ ret' = [ret EXCEPT !["NeedToBePausedByAnnotation"] =
                              Ptr(NeedToBePausedByAnnotation(so))]
    /\ UNCHANGED so

CallIsUsingModifiers ==
    /\ ret' = [ret EXCEPT !["IsUsingModifiers"] = Ptr(IsUsingModifiers(so))]
    /\ UNCHANGED so

\* mutant: the default is stored in the spec when no usable minimum is declared
CallGetHPAMinReplicas_StoresDefault ==
    /\ ret' = [ret EXCEPT !["GetHPAMinReplicas"] = Ptr(GetHPAMinReplicas(so))]
    /\ so' = [so EXCEPT !.Spec.MinReplicaCount = GetHPAMinReplicas(so)]

CallGetHPAMinReplicas ==
    /\ ret' = [ret EXCEPT !["GetHPAMinReplicas"] = Ptr(GetHPAMinReplicas(so))]
    /\ UNCHANGED so

CallGetHPAMaxReplicas ==
    /\ ret' = [ret EXCEPT !["GetHPAMaxReplicas"] = Ptr(GetHPAMaxReplicas(so))]
    /\ UNCHANGED so

CallCheckReplicaCountBoundsAreValid ==
    /\ ret' = [ret EXCEPT !["CheckReplicaCountBoundsAreValid"] =
                              Ptr(CheckReplicaCountBoundsAreValid(so))]
    /\ UNCHANGED so

CallCheckFallbackValid ==
    /\ ret' = [ret EXCEPT !["CheckFallbackValid"] = Ptr(CheckFallbackValid(so))]
    /\ UNCHANGED so

(***************************************************************************)
(* Specifications.  SpecBounds, SpecFallback, SpecModifiers and SpecPause  *)
(* call the operations of one component on every snapshot of its inputs;   *)
(* Spec mixes up to MaxCalls calls of all operations on one snapshot.      *)
(***************************************************************************)
NextBounds ==
    \/ CallGetHPAMinReplicas /\ UNCHANGED calls
    \/ CallGetHPAMaxReplicas /\ UNCHANGED calls
    \/ CallCheckReplicaCountBoundsAreValid /\ UNCHANGED calls

NextFallback ==
    \/ CallCheckFallbackValid /\ UNCHANGED calls

NextModifiers ==
    \/ CallIsUsingModifiers /\ UNCHANGED calls

NextPause ==
    \/ CallHasPausedReplicaAnnotation /\ UNCHANGED calls
    \/ CallHasPausedAnnotation /\ UNCHANGED calls
    \/ CallNeedToBePausedByAnnotation /\ UNCHANGED calls

\* one more call, while the caller has calls left
Counted == calls < MaxCalls /\ calls' = calls + 1

Next ==
    \/ Counted /\ CallHasPausedReplicaAnnotation
    \/ Counted /\ CallHasPausedAnnotation
    \/ Counted /\ CallNeedToBePausedByAnnotation
    \/ Counted /\ CallIsUsingModifiers
    \/ Counted /\ CallGetHPAMinReplicas
    \/ Counted /\ CallGetHPAMaxReplicas
    \/ Counted /\ CallCheckReplicaCountBoundsAreValid
    \/ Counted /\ CallCheckFallbackValid

SpecBounds == InitBounds /\ [][NextBounds]_vars

SpecFallback == InitFallback /\ [][NextFallback]_vars

SpecModifiers == InitModifiers /\ [][NextModifiers]_vars

SpecPause == InitPause /\ [][NextPause]_vars

Spec == Init /\ [][Next]_vars

(***************************************************************************)
(* The claims.  Their vocabulary is stated on the declared fields of the   *)
(* snapshot, independently of the operators above.                         *)
(***************************************************************************)
IsError(err, format) == err # NoError /\ err[1] = format

\* the declared minReplicaCount when present, 0 when absent
DeclaredOrZeroMin ==
    IF so.Spec.MinReplicaCount # Nil THEN Deref(so.Spec.MinReplicaCount) ELSE 0

\* the declared minReplicaCount if present and > 0, else 1
EffectiveMin ==
    IF so.Spec.MinReplicaCount # Nil /\ Deref(so.Spec.MinReplicaCount) > 0
    THEN Deref(so.Spec.MinReplicaCount)
    ELSE 1

\* the declared maxReplicaCount when present, 100 when absent
EffectiveMax ==
    IF so.Spec.MaxReplicaCount # Nil THEN Deref(so.Spec.MaxReplicaCount) ELSE 100

\* 0 when no minReplicaCount is declared, the effective minimum when one is
ComparedMin == IF so.Spec.MinReplicaCount = Nil THEN 0 ELSE EffectiveMin

IdleIsSet == so.Spec.IdleReplicaCount # Nil

Idle == Deref(so.Spec.IdleReplicaCount)

BoundsChecked == Called("CheckReplicaCountBoundsAreValid")

BoundsResult == Result("CheckReplicaCountBoundsAreValid")

\* C1 as stated: CheckReplicaCountBoundsAreValid fails with the
\* MinReplicaCount/MaxReplicaCount error iff declared-or-zero min > effective max.
C1_DeclaredMinAgainstMax ==
    BoundsChecked =>
        (IsError(BoundsResult, ErrMinAboveMax) <=> DeclaredOrZeroMin > EffectiveMax)

\* C1 as amended: CheckReplicaCountBoundsAreValid fails with the
\* MinReplicaCount/MaxReplicaCount error iff m > effective max, where m is 0 when
\* no minReplicaCount is declared and the value of GetHPAMinReplicas (the declared
\* min if > 0, else 1) when one is; the error carries m and the effective max.
C1_ComparedMinAgainstMax ==
    BoundsChecked =>
        /\ IsError(BoundsResult, ErrMinAboveMax) <=> ComparedMin > EffectiveMax
        /\ IsError(BoundsResult, ErrMinAboveMax) =>
               BoundsResult = <<ErrMinAboveMax, ComparedMin, EffectiveMax>>

\* a declared min <= 0 is rejected against a max it does not exceed
C1_Witness ==
    /\ BoundsChecked
    /\ IsError(BoundsResult, ErrMinAboveMax)
    /\ so.Spec.MinReplicaCount # Nil
    /\ DeclaredOrZeroMin <= EffectiveMax

\* C2 as stated: when the min/max check does not fail, the call fails with the
\* IdleReplicaCount error iff idle is set and idle >= declared-or-zero min, and
\* succeeds otherwise (so a declared min of 0 with idle 0 is rejected).
C2_IdleAgainstDeclaredMin ==
    (BoundsChecked /\ ~IsError(BoundsResult, ErrMinAboveMax)) =>
        /\ IsError(BoundsResult, ErrIdleAboveOrEqualMin)
               <=> (IdleIsSet /\ Idle >= DeclaredOrZeroMin)
        /\ ~IsError(BoundsResult, ErrIdleAboveOrEqualMin) => BoundsResult = NoError

\* C2 as amended: when the min/max check does not fail, the call fails with the
\* IdleReplicaCount error iff idle is set and idle >= m, where m is 0 when no
\* minReplicaCount is declared and the declared min if > 0, else 1, when one is;
\* in every other case it succeeds.
C2_IdleAgainstComparedMin ==
    (BoundsChecked /\ ~IsError(BoundsResult, ErrMinAboveMax)) =>
        /\ IsError(BoundsResult, ErrIdleAboveOrEqualMin)
               <=> (IdleIsSet /\ Idle >= ComparedMin)
        /\ IsError(BoundsResult, ErrIdleAboveOrEqualMin) =>
               BoundsResult = <<ErrIdleAboveOrEqualMin, Idle, ComparedMin>>
        /\ ~IsError(BoundsResult, ErrIdleAboveOrEqualMin) => BoundsResult = NoError

\* a declared min of 0 with idle 0 is accepted
C2_Witness ==
    /\ BoundsChecked
    /\ BoundsResult = NoError
    /\ so.Spec.MinReplicaCount = Ptr(0)
    /\ so.Spec.IdleReplicaCount = Ptr(0)

C8_Defaults ==
    /\ Called("GetHPAMinReplicas") =>
           /\ Deref(Result("GetHPAMinReplicas")) = EffectiveMin
           /\ Deref(Result("GetHPAMinReplicas")) >= 1
           /\ (so.Spec.MinReplicaCount = Nil /\ so.Spec.MaxReplicaCount = Nil)
                  => Deref(Result("GetHPAMinReplicas")) = 1
    /\ Called("GetHPAMaxReplicas") =>
           /\ Result("GetHPAMaxReplicas") = EffectiveMax
           /\ (so.Spec.MinReplicaCount = Nil /\ so.Spec.MaxReplicaCount = Nil)
                  => Result("GetHPAMaxReplicas") = 100

\* a declared min of 0 resolves to 1 while a declared negative max is kept
C8_Witness ==
    /\ Called("GetHPAMinReplicas")
    /\ Called("GetHPAMaxReplicas")
    /\ so.Spec.MinReplicaCount = Ptr(0)
    /\ Deref(Result("GetHPAMinReplicas")) = 1
    /\ so.Spec.MaxReplicaCount # Nil
    /\ Result("GetHPAMaxReplicas") < 0

FallbackChecked == Called("CheckFallbackValid")

FallbackResult == Result("CheckFallbackValid")

FallbackPresent == so.Spec.Fallback # Nil

\* the fallback block is present and neither of its numeric fields is negative
FallbackFieldsValid ==
    /\ FallbackPresent
    /\ Deref(so.Spec.Fallback).FailureThreshold >= 0
    /\ Deref(so.Spec.Fallback).Replicas >= 0

\* the Advanced block is present and one of the four modifier fields is non-empty
ModifiersInUse ==
    /\ so.Spec.Advanced # Nil
    /\ LET m == Deref(so.Spec.Advanced).ScalingModifiers
       IN  m.Formula # "" \/ m.Target # "" \/ m.ActivationTarget # ""
               \/ m.MetricType # ""

\* neither cpu nor memory, and metricType AverageValue or unset
Eligible(trigger) ==
    /\ trigger.Type \notin {"cpu", "memory"}
    /\ trigger.MetricType \in {"AverageValue", ""}

\* the snapshot with its triggers reordered by the permutation p of their indices
Reordered(p) ==
    [so EXCEPT !.Spec.Triggers =
         [i \in 1 .. Len(so.Spec.Triggers) |-> so.Spec.Triggers[p[i]]]]

\* C4: with a fallback block whose fields are >= 0 and no modifiers in use,
\* CheckFallbackValid succeeds iff some trigger is eligible and otherwise fails
\* with the no-eligible-trigger error; every reordering of the triggers gives the
\* same result, and an empty trigger list fails.
C4_EligibleTrigger ==
    (FallbackChecked /\ FallbackFieldsValid /\ ~ModifiersInUse) =>
        /\ FallbackResult = NoError
               <=> \E i \in 1 .. Len(so.Spec.Triggers) : Eligible(so.Spec.Triggers[i])
        /\ FallbackResult # NoError =>
               FallbackResult = <<ErrNoEligibleFallbackTrigger>>
        /\ \A p \in Permutations(1 .. Len(so.Spec.Triggers)) :
               CheckFallbackValid(Reordered(p)) = FallbackResult
        /\ so.Spec.Triggers = <<>> => FallbackResult # NoError

\* an eligible trigger is found behind a Value-typed one and a cpu one
C4_Witness ==
    /\ FallbackChecked /\ FallbackFieldsValid /\ ~ModifiersInUse
    /\ Len(so.Spec.Triggers) = 3
    /\ so.Spec.Triggers[1] = [Type |-> "kafka", MetricType |-> "Value"]
    /\ so.Spec.Triggers[2].Type = "cpu"
    /\ so.Spec.Triggers[3] = [Type |-> "kafka", MetricType |-> ""]
    /\ FallbackResult = NoError

\* C5: with a fallback block whose fields are >= 0 and modifiers in use,
\* CheckFallbackValid fails with the unsupported-metric-type error iff the
\* modifiers' metricType is Value, and succeeds otherwise, whatever the triggers.
C5_ModifiersMetricType ==
    (FallbackChecked /\ FallbackFieldsValid /\ ModifiersInUse) =>
        LET metricType == Deref(so.Spec.Advanced).ScalingModifiers.MetricType
        IN  /\ FallbackResult = <<ErrUnsupportedFallbackMetricType>>
                   <=> metricType = "Value"
            /\ metricType # "Value" => FallbackResult = NoError

\* modifiers with an unset metricType pass although no trigger is eligible
C5_Witness ==
    /\ FallbackChecked /\ FallbackFieldsValid /\ ModifiersInUse
    /\ Deref(so.Spec.Advanced).ScalingModifiers.MetricType = ""
    /\ so.Spec.Triggers # <<>>
    /\ \A i \in 1 .. Len(so.Spec.Triggers) : ~Eligible(so.Spec.Triggers[i])
    /\ FallbackResult = NoError

\* C6: CheckFallbackValid returns the negative-field error exactly when the
\* fallback block is present and failureThreshold < 0 or replicas < 0, whatever
\* the modifiers and triggers are; without a fallback block it succeeds.
C6_NegativeFieldFirst ==
    FallbackChecked =>
        /\ IsError(FallbackResult, ErrNegativeFallbackField)
               <=> (FallbackPresent /\ ~FallbackFieldsValid)
        /\ IsError(FallbackResult, ErrNegativeFallbackField) =>
               FallbackResult = <<ErrNegativeFallbackField,
                                  Deref(so.Spec.Fallback).FailureThreshold,
                                  Deref(so.Spec.Fallback).Replicas>>
        /\ ~FallbackPresent => FallbackResult = NoError

\* a negative replicas field is reported although the modifiers target Value
C6_Witness ==
    /\ FallbackChecked
    /\ FallbackPresent
    /\ Deref(so.Spec.Fallback).FailureThreshold >= 0
    /\ Deref(so.Spec.Fallback).Replicas < 0
    /\ ModifiersInUse
    /\ Deref(so.Spec.Advanced).ScalingModifiers.MetricType = "Value"
    /\ IsError(FallbackResult, ErrNegativeFallbackField)

\* C7: NeedToBePausedByAnnotation is, when the paused-replicas key is present,
\* true iff status.PausedReplicaCount is non-nil, whatever the two annotations'
\* values; else false when the paused key is absent; else the parsed boolean of
\* the paused annotation, or true when it does not parse.
C7_PausePrecedence ==
    Called("NeedToBePausedByAnnotation") =>
        Result("NeedToBePausedByAnnotation") =
            IF "autoscaling.keda.sh/paused-replicas" \in DOMAIN so.Annotations
            THEN so.Status.PausedReplicaCount # Nil
            ELSE IF "autoscaling.keda.sh/paused" \notin DOMAIN so.Annotations
            THEN FALSE
            ELSE LET value == so.Annotations["autoscaling.keda.sh/paused"]
                 IN  IF value \in {"1", "t", "T", "TRUE", "true", "True"} THEN TRUE
                     ELSE IF value \in {"0", "f", "F", "FALSE", "false", "False"}
                     THEN FALSE
                     ELSE TRUE

\* both annotations present, paused says true, no PausedReplicaCount: not paused
C7_Witness ==
    /\ Called("NeedToBePausedByAnnotation")
    /\ "autoscaling.keda.sh/paused-replicas" \in DOMAIN so.Annotations
    /\ "autoscaling.keda.sh/paused" \in DOMAIN so.Annotations
    /\ so.Annotations["autoscaling.keda.sh/paused"] = "true"
    /\ so.Status.PausedReplicaCount = Nil
    /\ Result("NeedToBePausedByAnnotation") = FALSE

\* C9: IsUsingModifiers is true iff Advanced is present and one of formula,
\* target, activationTarget, metricType is non-empty, whatever the other fields
\* of Advanced are.
C9_ModifiersInUse ==
    Called("IsUsingModifiers") => (Result("IsUsingModifiers") <=> ModifiersInUse)

\* only the activation target is set, beside an HPA config and the restore flag
C9_Witness ==
    /\ Called("IsUsingModifiers")
    /\ so.Spec.Advanced # Nil
    /\ Deref(so.Spec.Advanced).HorizontalPodAutoscalerConfig # Nil
    /\ Deref(so.Spec.Advanced).RestoreToOriginalReplicaCount
    /\ Deref(so.Spec.Advanced).ScalingModifiers =
           [ZeroScalingModifiers EXCEPT !.ActivationTarget = "1"]
    /\ Result("IsUsingModifiers") = TRUE

\* C10: a call of any operation leaves every field of the snapshot unchanged and
\* returns what the earlier calls of that operation on the snapshot returned.
C10_PureCalls ==
    [][/\ so' = so
       /\ \A op \in Operations : ret[op] # Nil => ret'[op] = ret[op]]_vars

\* MaxCalls calls were made of fewer operations: one of them was called again
C10_Witness ==
    /\ calls = MaxCalls
    /\ Cardinality({op \in Operations : Called(op)}) < calls
    /\ Called("CheckReplicaCountBoundsAreValid")
    /\ Called("GetHPAMinReplicas")

====
